---- MODULE Spec2Model ----
(***************************************************************************)
(* parasol-db: the sequenced table (VecTable), the temporal index          *)
(* (HashMapIndex) and the vector-clock merge (CompositeView).              *)
(*                                                                         *)
(* Indices into Vec are 0-based as in the source; a Vec is a TLA+ sequence *)
(* and Vec element i is vec[i + 1].  Option<T> is a sequence of length at  *)
(* most one: None is <<>>, Some(x) is <<x>>.  A scan item (Seq, Event) is  *)
(* the pair <<seq, event>>.                                                *)
(***************************************************************************)
EXTENDS Integers, Sequences, FiniteSets, TLC

VARIABLES table, index, composite, consumer, op, args, out

vars == <<table, index, composite, consumer, op, args, out>>

(***************************************************************************)
(* Bounds of the model.                                                    *)
(***************************************************************************)
\* records one table holds at most
MaxLen == 3
\* events of one append call at most
MaxBatch == 2
\* greatest seq handed to set_current_seq
MaxSeed == 2
\* records one CompositeView member holds at most
MaxMemberLen == 2
\* greatest seq handed to vector_clock_update
MaxClock == 6

\* Seq::MAX, scaled from u64 to 4 bits; Seq::MIN is 0
SeqMAX == 15
SeqMIN == 0

\* greatest seq a table of this model can assign
MaxSeq == MaxSeed + MaxLen
\* scan bounds and query seqs: 0, every assignable seq, and one beyond
Bounds == 0..(MaxSeq + 1)

None == <<>>
Some(x) == <<x>>

RECURSIVE Reverse(_)
Reverse(s) == IF s = <<>> THEN <<>> ELSE Reverse(Tail(s)) \o <<Head(s)>>

(***************************************************************************)
(* table/vec.rs                                                            *)
(***************************************************************************)
VecTable_new == [current_seq |-> 0, seqs |-> <<>>, events |-> <<>>]

\* slice::binary_search on a strictly increasing Vec<Seq>: Ok(idx) of the
\* element equal to x, or Err(idx) with idx the number of elements below x
binary_search(seqs, x) ==
    IF \E i \in 1..Len(seqs) : seqs[i] = x
    THEN [ok |-> TRUE, idx |-> (CHOOSE i \in 1..Len(seqs) : seqs[i] = x) - 1]
    ELSE [ok |-> FALSE, idx |-> Cardinality({i \in 1..Len(seqs) : seqs[i] < x})]

\* VecTableIterator::new with the lower bound kept inclusive (Ok(idx) => idx)
VecTableIterator_new_min_inclusive(t, reverse, min_seq_exclusive, max_seq_inclusive) ==
    LET lo == binary_search(t.seqs, min_seq_exclusive)
        hi == binary_search(t.seqs, max_seq_inclusive)
        max_idx == IF hi.ok THEN hi.idx + 1 ELSE hi.idx
    IN [table |-> t, reverse |-> reverse,
        min_idx_inclusive |-> lo.idx, max_idx_exclusive |-> max_idx]

VecTableIterator_new(t, reverse, min_seq_exclusive, max_seq_inclusive) ==
    LET lo == binary_search(t.seqs, min_seq_exclusive)
        hi == binary_search(t.seqs, max_seq_inclusive)
        min_idx == IF lo.ok THEN lo.idx + 1 ELSE lo.idx
        max_idx == IF hi.ok THEN hi.idx + 1 ELSE hi.idx
    IN [table |-> t, reverse |-> reverse,
        min_idx_inclusive |-> min_idx, max_idx_exclusive |-> max_idx]

VecTable_scan(t, start, end) ==
    LET reverse == start > end
        min == IF reverse THEN end ELSE start
        max == IF reverse THEN start ELSE end
    IN VecTableIterator_new(t, reverse, min, max)

\* get_current_seq read off the last stored record
VecTable_get_current_seq_last_stored(t) ==
    IF t.seqs = <<>> THEN 0 ELSE t.seqs[Len(t.seqs)]

VecTable_get_current_seq(t) == t.current_seq

\* the inherent next: the record at the low end of the index range
VecTableIterator_next(it) ==
    IF it.min_idx_inclusive = it.max_idx_exclusive
    THEN [item |-> None, it |-> it]
    ELSE [item |-> Some(<<it.table.seqs[it.min_idx_inclusive + 1],
                          it.table.events[it.min_idx_inclusive + 1]>>),
          it |-> [it EXCEPT !.min_idx_inclusive = @ + 1]]

\* next_back that stops at the start of the table, not at the front cursor
VecTableIterator_next_back_own_cursor(it) ==
    IF it.max_idx_exclusive = 0
    THEN [item |-> None, it |-> it]
    ELSE [item |-> Some(<<it.table.seqs[it.max_idx_exclusive],
                          it.table.events[it.max_idx_exclusive]>>),
          it |-> [it EXCEPT !.max_idx_exclusive = @ - 1]]

\* the inherent next_back: the record at the high end of the index range
VecTableIterator_next_back(it) ==
    IF it.min_idx_inclusive = it.max_idx_exclusive
    THEN [item |-> None, it |-> it]
    ELSE [item |-> Some(<<it.table.seqs[it.max_idx_exclusive],
                          it.table.events[it.max_idx_exclusive]>>),
          it |-> [it EXCEPT !.max_idx_exclusive = @ - 1]]

\* impl Iterator for VecTableIterator
VecTable_Iterator_next(it) ==
    IF ~it.reverse THEN VecTableIterator_next(it) ELSE VecTableIterator_next_back(it)

\* next_back that ignores the reverse flag
VecTable_DoubleEnded_next_back_unflipped(it) == VecTableIterator_next_back(it)

\* impl DoubleEndedIterator for VecTableIterator
VecTable_DoubleEnded_next_back(it) ==
    IF ~it.reverse THEN VecTableIterator_next_back(it) ELSE VecTableIterator_next(it)

\* append that gives every event of one call the same seq
RECURSIVE VecTable_append_one_seq(_, _, _)
VecTable_append_one_seq(t, events, result) ==
    IF events = <<>>
    THEN [table |-> t, result |-> result]
    ELSE LET seq == IF result = <<>> THEN t.current_seq + 1 ELSE t.current_seq
         IN VecTable_append_one_seq([current_seq |-> seq,
                                     seqs |-> Append(t.seqs, seq),
                                     events |-> Append(t.events, Head(events))],
                                    Tail(events), Append(result, seq))

\* Table::append: each event gets current_seq + 1, in the width of Seq (the
\* sum wraps past Seq::MAX where the build does not check it); returns the
\* assigned seqs
RECURSIVE VecTable_append(_, _, _)
VecTable_append(t, events, result) ==
    IF events = <<>>
    THEN [table |-> t, result |-> result]
    ELSE LET seq == (t.current_seq + 1) % (SeqMAX + 1)
         IN VecTable_append([current_seq |-> seq,
                             seqs |-> Append(t.seqs, seq),
                             events |-> Append(t.events, Head(events))],
                            Tail(events), Append(result, seq))

\* set_current_seq that drops the seq it is handed
VecTable_set_current_seq_ignored(t, seq) == t

\* set_current_seq that assigns without taking the maximum
VecTable_set_current_seq_assign(t, seq) == [t EXCEPT !.current_seq = seq]

VecTable_set_current_seq(t, seq) ==
    [t EXCEPT !.current_seq = IF t.current_seq >= seq THEN t.current_seq ELSE seq]

(***************************************************************************)
(* view/composite.rs, over VecTable members                                *)
(***************************************************************************)
\* the Vec of member views handed to CompositeView::new: two empty tables
Views == <<VecTable_new, VecTable_new>>
NumViews == Len(Views)

CompositeView_new(views) ==
    [views |-> views, vector_clock |-> [i \in 1..Len(views) |-> 0]]

\* node_id is the 0-based member index
vector_clock_update(cv, node_id, seq) ==
    [cv EXCEPT !.vector_clock[node_id + 1] = seq]

\* get_current_seq that takes a 0 entry for a member that has not reported
CompositeView_get_current_seq_nonzero(cv) ==
    LET reported == {cv.vector_clock[i] : i \in 1..Len(cv.vector_clock)} \ {0}
    IN IF reported = {} THEN 0
       ELSE CHOOSE m \in reported : \A n \in reported : m <= n

\* get_current_seq inferred from the members' own current seqs
CompositeView_get_current_seq_from_views(cv) ==
    IF Len(cv.views) = 0 THEN 0
    ELSE CHOOSE m \in {cv.views[i].current_seq : i \in 1..Len(cv.views)} :
            \A i \in 1..Len(cv.views) : m <= cv.views[i].current_seq

\* vector_clock.iter().min().copied().unwrap_or_default()
CompositeView_get_current_seq(cv) ==
    IF Len(cv.vector_clock) = 0 THEN 0
    ELSE CHOOSE m \in {cv.vector_clock[i] : i \in 1..Len(cv.vector_clock)} :
            \A i \in 1..Len(cv.vector_clock) : m <= cv.vector_clock[i]

CompositeViewIterator_new(cv, start, end) ==
    [iterators |-> [i \in 1..Len(cv.views) |-> VecTable_scan(cv.views[i], start, end)]]

CompositeView_scan(cv, start, end) == CompositeViewIterator_new(cv, start, end)

\* the loop of next with seq <= min_seq: the last member wins equal seqs
RECURSIVE min_seq_idx_from_last(_, _, _, _)
min_seq_idx_from_last(iterators, idx, min_seq, min_seq_idx) ==
    IF idx >= Len(iterators) THEN min_seq_idx
    ELSE LET head == VecTable_Iterator_next(iterators[idx + 1]).item
         IN IF head # None /\ head[1][1] <= min_seq
            THEN min_seq_idx_from_last(iterators, idx + 1, head[1][1], Some(idx))
            ELSE min_seq_idx_from_last(iterators, idx + 1, min_seq, min_seq_idx)

\* the loop of next over the cloned iterators, from member idx on: the member
\* whose head has the lowest seq, the first such member on equal seqs
RECURSIVE min_seq_idx_from(_, _, _, _)
min_seq_idx_from(iterators, idx, min_seq, min_seq_idx) ==
    IF idx >= Len(iterators) THEN min_seq_idx
    ELSE LET head == VecTable_Iterator_next(iterators[idx + 1]).item
         IN IF head # None /\ head[1][1] < min_seq
            THEN min_seq_idx_from(iterators, idx + 1, head[1][1], Some(idx))
            ELSE min_seq_idx_from(iterators, idx + 1, min_seq, min_seq_idx)

CompositeViewIterator_next(it) ==
    LET min_seq_idx == min_seq_idx_from(it.iterators, 0, SeqMAX, None)
    IN IF min_seq_idx = None
       THEN [item |-> None, it |-> it]
       ELSE LET r == VecTable_Iterator_next(it.iterators[min_seq_idx[1] + 1])
            IN [item |-> r.item,
                it |-> [it EXCEPT !.iterators[min_seq_idx[1] + 1] = r.it]]

\* the loop of next_back with seq > max_seq: the first member wins equal seqs
RECURSIVE max_seq_idx_from_first(_, _, _, _)
max_seq_idx_from_first(iterators, idx, max_seq, max_seq_idx) ==
    IF idx >= Len(iterators) THEN max_seq_idx
    ELSE LET tail == VecTable_DoubleEnded_next_back(iterators[idx + 1]).item
         IN IF tail # None /\ tail[1][1] > max_seq
            THEN max_seq_idx_from_first(iterators, idx + 1, tail[1][1], Some(idx))
            ELSE max_seq_idx_from_first(iterators, idx + 1, max_seq, max_seq_idx)

\* the loop of next_back: the member whose tail has the highest seq, the last
\* such member on equal seqs
RECURSIVE max_seq_idx_from(_, _, _, _)
max_seq_idx_from(iterators, idx, max_seq, max_seq_idx) ==
    IF idx >= Len(iterators) THEN max_seq_idx
    ELSE LET tail == VecTable_DoubleEnded_next_back(iterators[idx + 1]).item
         IN IF tail # None /\ tail[1][1] >= max_seq
            THEN max_seq_idx_from(iterators, idx + 1, tail[1][1], Some(idx))
            ELSE max_seq_idx_from(iterators, idx + 1, max_seq, max_seq_idx)

CompositeViewIterator_next_back(it) ==
    LET max_seq_idx == max_seq_idx_from(it.iterators, 0, SeqMIN, None)
    IN IF max_seq_idx = None
       THEN [item |-> None, it |-> it]
       ELSE LET r == VecTable_DoubleEnded_next_back(it.iterators[max_seq_idx[1] + 1])
            IN [item |-> r.item,
                it |-> [it EXCEPT !.iterators[max_seq_idx[1] + 1] = r.it]]

(***************************************************************************)
(* source_log/vector_log.rs: the log has no current_seq field               *)
(***************************************************************************)
VectorLog_new == [seqs |-> <<>>, events |-> <<>>]

\* current_seq read as the greatest stored seq
VectorLog_current_seq_greatest(log) ==
    IF log.seqs = <<>> THEN 0
    ELSE CHOOSE m \in {log.seqs[i] : i \in 1..Len(log.seqs)} :
            \A i \in 1..Len(log.seqs) : m >= log.seqs[i]

\* seqs.iter().max().copied().unwrap_or_default() + 1
VectorLog_current_seq(log) ==
    (IF log.seqs = <<>> THEN 0
     ELSE CHOOSE m \in {log.seqs[i] : i \in 1..Len(log.seqs)} :
            \A i \in 1..Len(log.seqs) : m >= log.seqs[i]) + 1

\* Table::write: each event is pushed under current_seq() as it is then
RECURSIVE VectorLog_write(_, _)
VectorLog_write(log, events) ==
    IF events = <<>> THEN log
    ELSE VectorLog_write([seqs |-> Append(log.seqs, VectorLog_current_seq(log)),
                          events |-> Append(log.events, Head(events))],
                         Tail(events))

VectorLogIterator_new(log, reverse, min_seq_exclusive, max_seq_inclusive) ==
    LET lo == binary_search(log.seqs, min_seq_exclusive)
        hi == binary_search(log.seqs, max_seq_inclusive)
        min_idx == IF lo.ok THEN lo.idx + 1 ELSE lo.idx
        max_idx == IF hi.ok THEN hi.idx + 1 ELSE hi.idx
    IN [log |-> log, reverse |-> reverse,
        min_idx_inclusive |-> min_idx, max_idx_exclusive |-> max_idx]

VectorLog_scan(log, start, end) ==
    LET reverse == start > end
        min == IF reverse THEN end ELSE start
        max == IF reverse THEN start ELSE end
    IN VectorLogIterator_new(log, reverse, min, max)

VectorLogIterator_next(it) ==
    IF it.min_idx_inclusive = it.max_idx_exclusive
    THEN [item |-> None, it |-> it]
    ELSE [item |-> Some(<<it.log.seqs[it.min_idx_inclusive + 1],
                          it.log.events[it.min_idx_inclusive + 1]>>),
          it |-> [it EXCEPT !.min_idx_inclusive = @ + 1]]

VectorLogIterator_next_back(it) ==
    IF it.min_idx_inclusive = it.max_idx_exclusive
    THEN [item |-> None, it |-> it]
    ELSE [item |-> Some(<<it.log.seqs[it.max_idx_exclusive],
                          it.log.events[it.max_idx_exclusive]>>),
          it |-> [it EXCEPT !.max_idx_exclusive = @ - 1]]

\* impl Iterator for VectorLogIterator
VectorLog_Iterator_next(it) ==
    IF ~it.reverse THEN VectorLogIterator_next(it) ELSE VectorLogIterator_next_back(it)

\* impl DoubleEndedIterator for VectorLogIterator
VectorLog_DoubleEnded_next_back(it) ==
    IF ~it.reverse THEN VectorLogIterator_next_back(it) ELSE VectorLogIterator_next(it)

(***************************************************************************)
(* The View trait over its implementations, and iterator consumption.      *)
(***************************************************************************)
IsComposite(view) == "views" \in DOMAIN view

IsVectorLog(view) == ~IsComposite(view) /\ "current_seq" \notin DOMAIN view

View_scan(view, start, end) ==
    IF IsComposite(view) THEN CompositeView_scan(view, start, end)
    ELSE IF IsVectorLog(view) THEN VectorLog_scan(view, start, end)
    ELSE VecTable_scan(view, start, end)

Iterator_next(it) ==
    IF "iterators" \in DOMAIN it THEN CompositeViewIterator_next(it)
    ELSE IF "log" \in DOMAIN it THEN VectorLog_Iterator_next(it)
    ELSE VecTable_Iterator_next(it)

DoubleEnded_next_back(it) ==
    IF "iterators" \in DOMAIN it THEN CompositeViewIterator_next_back(it)
    ELSE IF "log" \in DOMAIN it THEN VectorLog_DoubleEnded_next_back(it)
    ELSE VecTable_DoubleEnded_next_back(it)

\* for item in it / it.collect(): next until None
RECURSIVE collect(_)
collect(it) ==
    LET r == Iterator_next(it)
    IN IF r.item = None THEN <<>> ELSE <<r.item[1]>> \o collect(r.it)

\* it.rev().collect(): next_back until None
RECURSIVE rev_collect(_)
rev_collect(it) ==
    LET r == DoubleEnded_next_back(it)
    IN IF r.item = None THEN <<>> ELSE <<r.item[1]>> \o rev_collect(r.it)

(***************************************************************************)
(* index/hash_map_index.rs                                                 *)
(***************************************************************************)
Keys == {1, 2}
Values == {1, 2}

Insert(k, v) == [type |-> "Insert", key |-> k, value |-> v]
Remove(k) == [type |-> "Remove", key |-> k]
Clear == [type |-> "Clear"]

\* the events an index source holds, named by number
Events == 1..6

\* the projection handed to HashMapIndex::new: a pure function of the event
to_assignment(event) ==
    CASE event = 1 -> <<Insert(1, 1)>>
      [] event = 2 -> <<Insert(1, 2)>>
      [] event = 3 -> <<Insert(2, 1)>>
      [] event = 4 -> <<Remove(1)>>
      [] event = 5 -> <<Clear>>
      [] event = 6 -> <<Insert(2, 2), Clear, Insert(1, 1)>>

\* HashMap<Key, Value> is a function from the keys present to their values
EmptyMap == [k \in {} |-> 0]
map_insert(m, k, v) == [x \in (DOMAIN m) \cup {k} |-> IF x = k THEN v ELSE m[x]]
map_remove(m, k) == [x \in (DOMAIN m) \ {k} |-> m[x]]
map_remove_all(m, ks) == [x \in (DOMAIN m) \ ks |-> m[x]]
map_get(m, k) == IF k \in DOMAIN m THEN Some(m[k]) ELSE None

HashMapIndex_new == [current_seq |-> 0, map |-> EmptyMap]

\* the match of update and of the ahead branch of get_all, on one op
apply_update(m, u) ==
    CASE u.type = "Insert" -> map_insert(m, u.key, u.value)
      [] u.type = "Remove" -> map_remove(m, u.key)
      [] u.type = "Clear" -> EmptyMap

RECURSIVE apply_updates(_, _)
apply_updates(m, updates) ==
    IF updates = <<>> THEN m
    ELSE apply_updates(apply_update(m, Head(updates)), Tail(updates))

\* for (_, event) in items { for update in to_assignment(event) { ... } }
RECURSIVE apply_events(_, _)
apply_events(m, items) ==
    IF items = <<>> THEN m
    ELSE apply_events(apply_updates(m, to_assignment(Head(items)[2])), Tail(items))

\* update that applies the events of the window newest first
HashMapIndex_update_descending(idx, source, seq) ==
    [current_seq |-> seq,
     map |-> apply_events(idx.map, rev_collect(View_scan(source, idx.current_seq, seq)))]

\* update that folds the window into an empty map instead of self.map
HashMapIndex_update_replace(idx, source, seq) ==
    [current_seq |-> seq,
     map |-> apply_events(EmptyMap, collect(View_scan(source, idx.current_seq, seq)))]

HashMapIndex_update(idx, source, seq) ==
    [current_seq |-> seq,
     map |-> apply_events(idx.map, collect(View_scan(source, idx.current_seq, seq)))]

HashMapIndex_get_current_seq(idx) == idx.current_seq

\* the inner loop of get without the Clear arm
RECURSIVE get_decide_updates_skip_clear(_, _)
get_decide_updates_skip_clear(updates, key) ==
    IF updates = <<>> THEN [returned |-> FALSE, value |-> None]
    ELSE LET u == Head(updates)
         IN CASE u.type = "Insert" /\ u.key = key -> [returned |-> TRUE, value |-> Some(u.value)]
              [] u.type = "Remove" /\ u.key = key -> [returned |-> TRUE, value |-> None]
              [] OTHER -> get_decide_updates_skip_clear(Tail(updates), key)

\* get: the inner loop over one event's ops, newest first; the first op on
\* key (or a Clear) decides and returns
RECURSIVE get_decide_updates(_, _)
get_decide_updates(updates, key) ==
    IF updates = <<>> THEN [returned |-> FALSE, value |-> None]
    ELSE LET u == Head(updates)
         IN CASE u.type = "Insert" /\ u.key = key -> [returned |-> TRUE, value |-> Some(u.value)]
              [] u.type = "Remove" /\ u.key = key -> [returned |-> TRUE, value |-> None]
              [] u.type = "Clear" -> [returned |-> TRUE, value |-> None]
              [] OTHER -> get_decide_updates(Tail(updates), key)

RECURSIVE get_decide_events(_, _)
get_decide_events(items, key) ==
    IF items = <<>> THEN [returned |-> FALSE, value |-> None]
    ELSE LET r == get_decide_updates(Reverse(to_assignment(Head(items)[2])), key)
         IN IF r.returned THEN r ELSE get_decide_events(Tail(items), key)

\* get, behind branch: does one event's op list (newest first) set modified?
RECURSIVE get_modified_updates(_, _)
get_modified_updates(updates, key) ==
    IF updates = <<>> THEN FALSE
    ELSE LET u == Head(updates)
         IN CASE u.type \in {"Insert", "Remove"} /\ u.key = key -> TRUE
              [] u.type = "Clear" -> TRUE
              [] OTHER -> get_modified_updates(Tail(updates), key)

\* the break leaves the inner loop only: every event of the window is visited
RECURSIVE get_modified_events(_, _, _)
get_modified_events(items, key, modified) ==
    IF items = <<>> THEN modified
    ELSE get_modified_events(Tail(items), key,
            modified \/ get_modified_updates(Reverse(to_assignment(Head(items)[2])), key))

\* get whose ahead branch reads the scan from the front
HashMapIndex_get_forward(idx, source, seq, key) ==
    IF seq >= idx.current_seq
    THEN LET r == get_decide_events(collect(View_scan(source, idx.current_seq, seq)), key)
         IN IF r.returned THEN r.value ELSE map_get(idx.map, key)
    ELSE LET modified == get_modified_events(
                            rev_collect(View_scan(source, seq, idx.current_seq)), key, FALSE)
         IN IF modified
            THEN get_decide_events(rev_collect(View_scan(source, 0, seq)), key).value
            ELSE map_get(idx.map, key)

HashMapIndex_get(idx, source, seq, key) ==
    IF seq >= idx.current_seq
    THEN LET r == get_decide_events(rev_collect(View_scan(source, idx.current_seq, seq)), key)
         IN IF r.returned THEN r.value ELSE map_get(idx.map, key)
    ELSE LET modified == get_modified_events(
                            rev_collect(View_scan(source, seq, idx.current_seq)), key, FALSE)
         IN IF modified
            THEN get_decide_events(rev_collect(View_scan(source, 0, seq)), key).value
            ELSE map_get(idx.map, key)

\* get_all, behind branch: one event's ops, oldest first, into
\* (modified_keys, cleared); a Clear sets cleared and leaves the inner loop
RECURSIVE get_all_touched_updates(_, _)
get_all_touched_updates(st, updates) ==
    IF updates = <<>> THEN st
    ELSE LET u == Head(updates)
         IN IF u.type = "Clear"
            THEN [st EXCEPT !.cleared = TRUE]
            ELSE get_all_touched_updates(
                    [st EXCEPT !.modified_keys = @ \cup {u.key}], Tail(updates))

RECURSIVE get_all_touched_events(_, _)
get_all_touched_events(st, items) ==
    IF items = <<>> THEN st
    ELSE get_all_touched_events(
            get_all_touched_updates(st, to_assignment(Head(items)[2])), Tail(items))

\* get_all, cleared branch: one event's ops, newest first, into
\* (removed_keys, result); a Clear leaves the inner loop
RECURSIVE get_all_rebuild_updates(_, _)
get_all_rebuild_updates(st, updates) ==
    IF updates = <<>> THEN st
    ELSE LET u == Head(updates)
         IN CASE u.type = "Clear" -> st
              [] u.type = "Insert" ->
                    IF u.key \notin DOMAIN st.result /\ u.key \notin st.removed_keys
                    THEN get_all_rebuild_updates(
                            [st EXCEPT !.result = map_insert(@, u.key, u.value)], Tail(updates))
                    ELSE get_all_rebuild_updates(st, Tail(updates))
              [] u.type = "Remove" ->
                    get_all_rebuild_updates(
                        [st EXCEPT !.removed_keys = @ \cup {u.key}], Tail(updates))

\* the outer loop of the cleared branch runs over every event of (0, seq]
RECURSIVE get_all_rebuild_events(_, _)
get_all_rebuild_events(st, items) ==
    IF items = <<>> THEN st
    ELSE get_all_rebuild_events(
            get_all_rebuild_updates(st, Reverse(to_assignment(Head(items)[2]))), Tail(items))

\* the Insert arm that inserts without taking the key out of modified_keys
RECURSIVE get_all_rewind_updates_keep_key(_, _)
get_all_rewind_updates_keep_key(st, updates) ==
    IF updates = <<>> THEN st
    ELSE LET u == Head(updates)
         IN CASE u.type = "Clear" ->
                    get_all_rewind_updates_keep_key(
                        [st EXCEPT !.result = map_remove_all(@, st.modified_keys)], Tail(updates))
              [] u.type = "Insert" ->
                    IF u.key \in st.modified_keys
                    THEN get_all_rewind_updates_keep_key(
                            [st EXCEPT !.result = map_insert(@, u.key, u.value)], Tail(updates))
                    ELSE get_all_rewind_updates_keep_key(st, Tail(updates))
              [] u.type = "Remove" ->
                    get_all_rewind_updates_keep_key(
                        [st EXCEPT !.modified_keys = @ \ {u.key}], Tail(updates))

\* get_all, rewind branch without a Clear in the window: one event's ops,
\* newest first, into (modified_keys, result)
RECURSIVE get_all_rewind_updates(_, _)
get_all_rewind_updates(st, updates) ==
    IF updates = <<>> THEN st
    ELSE LET u == Head(updates)
         IN CASE u.type = "Clear" ->
                    get_all_rewind_updates(
                        [st EXCEPT !.result = map_remove_all(@, st.modified_keys)], Tail(updates))
              [] u.type = "Insert" ->
                    IF u.key \in st.modified_keys
                    THEN get_all_rewind_updates(
                            [modified_keys |-> st.modified_keys \ {u.key},
                             result |-> map_insert(st.result, u.key, u.value)], Tail(updates))
                    ELSE get_all_rewind_updates(st, Tail(updates))
              [] u.type = "Remove" ->
                    get_all_rewind_updates(
                        [st EXCEPT !.modified_keys = @ \ {u.key}], Tail(updates))

\* the rewind loop without the removal of the keys left in modified_keys
RECURSIVE get_all_rewind_events_keep_rest(_, _)
get_all_rewind_events_keep_rest(st, items) ==
    IF items = <<>> THEN st.result
    ELSE LET next == get_all_rewind_updates(st, Reverse(to_assignment(Head(items)[2])))
         IN IF next.modified_keys = {} THEN next.result
            ELSE get_all_rewind_events_keep_rest(next, Tail(items))

\* the outer loop returns once modified_keys is empty after an event; at the
\* end of the scan the keys left in modified_keys are removed
RECURSIVE get_all_rewind_events(_, _)
get_all_rewind_events(st, items) ==
    IF items = <<>> THEN map_remove_all(st.result, st.modified_keys)
    ELSE LET next == get_all_rewind_updates(st, Reverse(to_assignment(Head(items)[2])))
         IN IF next.modified_keys = {} THEN next.result
            ELSE get_all_rewind_events(next, Tail(items))

\* get_all whose ahead branch returns the clone of the map without replaying
HashMapIndex_get_all_ahead_is_map(idx, source, seq) ==
    IF seq >= idx.current_seq
    THEN idx.map
    ELSE LET touched == get_all_touched_events(
                            [modified_keys |-> {}, cleared |-> FALSE],
                            collect(View_scan(source, seq, idx.current_seq)))
             before == rev_collect(View_scan(source, 0, seq))
         IN IF touched.cleared
            THEN get_all_rebuild_events([removed_keys |-> {}, result |-> EmptyMap], before).result
            ELSE get_all_rewind_events(
                    [modified_keys |-> touched.modified_keys, result |-> idx.map], before)

HashMapIndex_get_all(idx, source, seq) ==
    IF seq >= idx.current_seq
    THEN apply_events(idx.map, collect(View_scan(source, idx.current_seq, seq)))
    ELSE LET touched == get_all_touched_events(
                            [modified_keys |-> {}, cleared |-> FALSE],
                            collect(View_scan(source, seq, idx.current_seq)))
             before == rev_collect(View_scan(source, 0, seq))
         IN IF touched.cleared
            THEN get_all_rebuild_events([removed_keys |-> {}, result |-> EmptyMap], before).result
            ELSE get_all_rewind_events(
                    [modified_keys |-> touched.modified_keys, result |-> idx.map], before)

(***************************************************************************)
(* derived_log/hash_map_log.rs (sink_log/hash_map_log.rs is the same code   *)
(* under the names SinkLog / seq)                                          *)
(***************************************************************************)
\* the events that are one (key, value) assignment
InsertEvents == {1, 2, 3}

\* KeyValueAssignment::get of such an event; to_assignment projects it to
\* the single op Insert(key, value)
KeyValueAssignment_get(event) ==
    CASE event = 1 -> <<1, 1>>
      [] event = 2 -> <<1, 2>>
      [] event = 3 -> <<2, 1>>

\* for key_value_assignment in base.scan(0, seq) { result.insert(key, value) }
RECURSIVE get_at_seq_insert(_, _)
get_at_seq_insert(result, items) ==
    IF items = <<>> THEN result
    ELSE LET kv == KeyValueAssignment_get(Head(items)[2])
         IN get_at_seq_insert(map_insert(result, kv[1], kv[2]), Tail(items))

HashMapLog_get_at_seq(base, seq) ==
    get_at_seq_insert(EmptyMap, collect(View_scan(base, 0, seq)))

(***************************************************************************)
(* State machine.  op, args and out record the last call, its arguments    *)
(* and what it returned; consumer is a caller that holds a scan iterator   *)
(* of the table and calls next() and next_back() on it.                    *)
(***************************************************************************)
\* payloads of the tables that are only scanned: opaque, two distinct values
Payloads == {1, 2}

\* the batches one append call may get: 0..MaxBatch events
Batches(S) == UNION {[1..n -> S] : n \in 0..MaxBatch}

\* query seqs of an index over a table grown by append only
IndexSeqs == 0..(MaxLen + 1)

\* scan bounds of a CompositeView
MemberBounds == 0..(MaxSeed + MaxMemberLen + 1)

\* a caller that holds no iterator yet; with one, it is the iterator, scanned
\* the table as it was when scan was called, start and end the scan's bounds,
\* front and back the items next() and next_back() have returned so far
Consumer_new ==
    [it |-> None, scanned |-> VecTable_new, start |-> 0, end |-> 0,
     front |-> <<>>, back |-> <<>>]

Init ==
    /\ table = VecTable_new
    /\ index = HashMapIndex_new
    /\ composite = CompositeView_new(Views)
    /\ consumer = Consumer_new
    /\ op = "new"
    /\ args = <<>>
    /\ out = <<>>

\* table.append(events).  In a build with overflow checks current_seq += 1
\* panics at Seq::MAX, after the events before it were stored; in a build
\* without them it wraps to 0
TableAppend(events) ==
    /\ Len(table.seqs) + Len(events) <= MaxLen
    /\ \E overflow_checks \in BOOLEAN :
        LET stored == IF overflow_checks /\ table.current_seq + Len(events) > SeqMAX
                      THEN SubSeq(events, 1, SeqMAX - table.current_seq)
                      ELSE events
            r == VecTable_append(table, stored, <<>>)
        IN /\ table' = r.table
           /\ out' = IF stored = events THEN r.result ELSE <<>>
           /\ op' = IF stored = events THEN "append" ELSE "append_panic"
    /\ args' = <<events>>
    /\ UNCHANGED <<index, composite, consumer>>

\* table.set_current_seq(seq)
TableSetCurrentSeq(seq) ==
    /\ table' = VecTable_set_current_seq(table, seq)
    /\ op' = "set_current_seq"
    /\ args' = <<seq>>
    /\ out' = <<>>
    /\ UNCHANGED <<index, composite, consumer>>

\* table.scan(start, end), consumed from the front and, on a second
\* iterator of the same scan, from the back
TableScan(start, end) ==
    /\ op' = "scan"
    /\ args' = <<start, end>>
    /\ out' = [front |-> collect(VecTable_scan(table, start, end)),
               back |-> rev_collect(VecTable_scan(table, start, end))]
    /\ UNCHANGED <<table, index, composite, consumer>>

\* table.get_current_seq()
TableGetCurrentSeq ==
    /\ op' = "get_current_seq"
    /\ args' = <<>>
    /\ out' = VecTable_get_current_seq(table)
    /\ UNCHANGED <<table, index, composite, consumer>>

TableNext ==
    \/ \E events \in Batches(Payloads) : TableAppend(events)
    \/ \E seq \in 0..MaxSeed : TableSetCurrentSeq(seq)
    \/ \E start \in Bounds, end \in Bounds : TableScan(start, end)
    \/ TableGetCurrentSeq

\* a VecTable under append, set_current_seq and scans
TableSpec == Init /\ [][TableNext]_vars

\* index.update(&mut table, seq)
IndexUpdate(seq) ==
    /\ index' = HashMapIndex_update(index, table, seq)
    /\ op' = "update"
    /\ args' = <<seq>>
    /\ out' = <<>>
    /\ UNCHANGED <<table, composite, consumer>>

\* index.get(&mut table, seq, &key)
IndexGet(seq, key) ==
    /\ op' = "get"
    /\ args' = <<seq, key>>
    /\ out' = HashMapIndex_get(index, table, seq, key)
    /\ UNCHANGED <<table, index, composite, consumer>>

\* get_all that keeps what it computed as the index's state
IndexGetAll_caching(seq) ==
    /\ op' = "get_all"
    /\ args' = <<seq>>
    /\ out' = HashMapIndex_get_all(index, table, seq)
    /\ index' = [current_seq |-> seq, map |-> HashMapIndex_get_all(index, table, seq)]
    /\ UNCHANGED <<table, composite, consumer>>

\* index.get_all(&mut table, seq)
IndexGetAll(seq) ==
    /\ op' = "get_all"
    /\ args' = <<seq>>
    /\ out' = HashMapIndex_get_all(index, table, seq)
    /\ UNCHANGED <<table, index, composite, consumer>>

IndexNext ==
    \/ \E events \in Batches(Events) : TableAppend(events)
    \/ \E seq \in index.current_seq..table.current_seq : IndexUpdate(seq)
    \/ \E seq \in IndexSeqs, key \in Keys : IndexGet(seq, key)
    \/ \E seq \in IndexSeqs : IndexGetAll(seq)

\* a HashMapIndex over a VecTable: appends, updates as the driver calls them
\* (seq from the index's current_seq up to the table's current seq) and queries
IndexSpec == Init /\ [][IndexNext]_vars

QueryNext ==
    \/ \E events \in Batches(Events) : TableAppend(events)
    \/ \E seq \in index.current_seq..table.current_seq : IndexUpdate(seq)
    \/ \E seq \in IndexSeqs, key \in Keys : IndexGet(seq, key)
    \/ \E seq \in IndexSeqs : IndexGetAll(seq)
    \/ \E start \in IndexSeqs, end \in {0, table.current_seq} : TableScan(start, end)
    \/ TableGetCurrentSeq

\* a table and its index under appends and driver updates, with every query
\* of both: get, get_all, get_current_seq, and scans to 0 and to the table's
\* current seq
QuerySpec == Init /\ [][QueryNext]_vars

UpdateNext ==
    \/ \E events \in Batches(Events) : TableAppend(events)
    \/ \E seq \in IndexSeqs : IndexUpdate(seq)

\* a HashMapIndex updated to any seq: ahead of the table, at its own
\* current_seq, or behind it
UpdateSpec == Init /\ [][UpdateNext]_vars

AdvanceNext ==
    \/ \E events \in Batches(Events) : TableAppend(events)
    \/ \E seq \in {u \in IndexSeqs : u >= index.current_seq} : IndexUpdate(seq)
    \/ \E seq \in {index.current_seq} : IndexGetAll(seq)

\* a HashMapIndex updated with non-decreasing seqs that may run ahead of
\* the table, and asked for get_all(current_seq)
AdvanceSpec == Init /\ [][AdvanceNext]_vars

\* the events member node_id appends carry its node id, so that every
\* record a composite scan yields tells which member it came from
MemberEvents(node_id) == {node_id + 1}

\* composite.views[node_id].append(events), with the panic or the wrap of
\* current_seq += 1 at Seq::MAX as in TableAppend
MemberAppend(node_id, events) ==
    /\ Len(composite.views[node_id + 1].seqs) + Len(events) <= MaxMemberLen
    /\ \E overflow_checks \in BOOLEAN :
        LET view == composite.views[node_id + 1]
            stored == IF overflow_checks /\ view.current_seq + Len(events) > SeqMAX
                      THEN SubSeq(events, 1, SeqMAX - view.current_seq)
                      ELSE events
            r == VecTable_append(view, stored, <<>>)
        IN /\ composite' = [composite EXCEPT !.views[node_id + 1] = r.table]
           /\ out' = IF stored = events THEN r.result ELSE <<>>
           /\ op' = IF stored = events THEN "member_append" ELSE "member_append_panic"
    /\ args' = <<node_id, events>>
    /\ UNCHANGED <<table, index, consumer>>

\* composite.views[node_id].set_current_seq(seq)
MemberSetCurrentSeq(node_id, seq) ==
    /\ composite' = [composite EXCEPT
                        !.views[node_id + 1] = VecTable_set_current_seq(@, seq)]
    /\ op' = "member_set_current_seq"
    /\ args' = <<node_id, seq>>
    /\ out' = <<>>
    /\ UNCHANGED <<table, index, consumer>>

\* composite.scan(start, end), consumed from the front and, on a second
\* iterator of the same scan, from the back
CompositeScan(start, end) ==
    /\ op' = "composite_scan"
    /\ args' = <<start, end>>
    /\ out' = [front |-> collect(CompositeView_scan(composite, start, end)),
               back |-> rev_collect(CompositeView_scan(composite, start, end))]
    /\ UNCHANGED <<table, index, composite, consumer>>

CompositeNext ==
    \/ \E node_id \in 0..(NumViews - 1) : \E events \in Batches(MemberEvents(node_id)) :
            MemberAppend(node_id, events)
    \/ \E node_id \in 0..(NumViews - 1), seq \in 0..MaxSeed :
            MemberSetCurrentSeq(node_id, seq)
    \/ \E start \in MemberBounds, end \in MemberBounds : CompositeScan(start, end)

\* a CompositeView whose members are appended to and seeded, and scanned
CompositeSpec == Init /\ [][CompositeNext]_vars

\* composite.vector_clock_update(node_id, seq)
VectorClockUpdate(node_id, seq) ==
    /\ composite' = vector_clock_update(composite, node_id, seq)
    /\ op' = "vector_clock_update"
    /\ args' = <<node_id, seq>>
    /\ out' = <<>>
    /\ UNCHANGED <<table, index, consumer>>

\* composite.get_current_seq()
CompositeGetCurrentSeq ==
    /\ op' = "composite_get_current_seq"
    /\ args' = <<>>
    /\ out' = CompositeView_get_current_seq(composite)
    /\ UNCHANGED <<table, index, composite, consumer>>

ClockNext ==
    \/ \E node_id \in 0..(NumViews - 1), seq \in 0..MaxClock :
            VectorClockUpdate(node_id, seq)
    \/ CompositeGetCurrentSeq

\* the vector clock of a CompositeView under vector_clock_update
ClockSpec == Init /\ [][ClockNext]_vars

\* the output of composite.scan(0, end), consumed from the front
scan_from_zero(cv, end) == collect(CompositeView_scan(cv, 0, end))

WatermarkNext ==
    \/ \E node_id \in 0..(NumViews - 1) : \E events \in Batches(MemberEvents(node_id)) :
            MemberAppend(node_id, events)
    \/ \E node_id \in 0..(NumViews - 1), seq \in 0..MaxSeed :
            MemberSetCurrentSeq(node_id, seq)
    \/ \E node_id \in 0..(NumViews - 1), seq \in 0..MaxSeed :
            VectorClockUpdate(node_id, seq)
    \/ CompositeGetCurrentSeq
    \/ \E end \in 0..MaxSeed : CompositeScan(0, end)

\* a CompositeView whose members grow while its vector clock is reported,
\* its watermark read and scans taken from 0
WatermarkSpec == Init /\ [][WatermarkNext]_vars

\* the state after construction with a VectorLog as the base: table holds
\* the log
LogInit ==
    /\ table = VectorLog_new
    /\ index = HashMapIndex_new
    /\ composite = CompositeView_new(Views)
    /\ consumer = Consumer_new
    /\ op = "new"
    /\ args = <<>>
    /\ out = <<>>

\* log.write(events)
LogWrite(events) ==
    /\ Len(table.seqs) + Len(events) <= MaxLen
    /\ table' = VectorLog_write(table, events)
    /\ op' = "write"
    /\ args' = <<events>>
    /\ out' = <<>>
    /\ UNCHANGED <<index, composite, consumer>>

\* log.current_seq()
LogCurrentSeq ==
    /\ op' = "log_current_seq"
    /\ args' = <<>>
    /\ out' = VectorLog_current_seq(table)
    /\ UNCHANGED <<table, index, composite, consumer>>

\* log.scan(start, end), consumed from the front and, on a second iterator
\* of the same scan, from the back
LogScan(start, end) ==
    /\ op' = "log_scan"
    /\ args' = <<start, end>>
    /\ out' = [front |-> collect(VectorLog_scan(table, start, end)),
               back |-> rev_collect(VectorLog_scan(table, start, end))]
    /\ UNCHANGED <<table, index, composite, consumer>>

LogNext ==
    \/ \E events \in Batches(Payloads) : LogWrite(events)
    \/ LogCurrentSeq
    \/ \E start \in IndexSeqs, end \in IndexSeqs : LogScan(start, end)

\* a VectorLog under write, current_seq and scans
LogSpec == LogInit /\ [][LogNext]_vars

\* DestListNode::update_all(seq): update(seq) on every destination of the list
DestList_update_all(dest_list, source, seq) ==
    [i \in 1..Len(dest_list) |-> HashMapIndex_update(dest_list[i], source, seq)]

\* scheduler.write(events): base.write(events), then
\* dest_list.update_all(base.current_seq()); the list holds the one index
DriverWrite(events) ==
    /\ Len(table.seqs) + Len(events) <= MaxLen
    /\ LET base == VectorLog_write(table, events)
       IN /\ table' = base
          /\ index' = DestList_update_all(<<index>>, base, VectorLog_current_seq(base))[1]
    /\ op' = "driver_write"
    /\ args' = <<events>>
    /\ out' = <<>>
    /\ UNCHANGED <<composite, consumer>>

DriverNext ==
    \/ \E events \in Batches(Events) : DriverWrite(events)
    \/ \E seq \in IndexSeqs : IndexGetAll(seq)

\* the write-then-update driver over a VectorLog base and one HashMapIndex
\* destination, with get_all queries between the batches
DriverSpec == LogInit /\ [][DriverNext]_vars

\* the consumer calls table.scan(start, end) and keeps the iterator
ConsumerScan(start, end) ==
    /\ consumer' = [it |-> Some(VecTable_scan(table, start, end)), scanned |-> table,
                    start |-> start, end |-> end, front |-> <<>>, back |-> <<>>]
    /\ op' = "scan_iter"
    /\ args' = <<start, end>>
    /\ out' = <<>>
    /\ UNCHANGED <<table, index, composite>>

\* next() on an iterator that reads the table as it is when next() is
\* called: the item after those already taken from the front of a fresh scan
ConsumerNext_live ==
    /\ consumer.it # None
    /\ LET now == collect(VecTable_scan(table, consumer.start, consumer.end))
           rest == SubSeq(now, Len(consumer.front) + 1, Len(now) - Len(consumer.back))
           item == IF rest = <<>> THEN None ELSE Some(Head(rest))
       IN /\ consumer' = [consumer EXCEPT
                            !.it = Some(VecTable_Iterator_next(consumer.it[1]).it),
                            !.front = @ \o item]
          /\ out' = item
    /\ op' = "next"
    /\ args' = <<>>
    /\ UNCHANGED <<table, index, composite>>

\* the consumer calls next() on its iterator
ConsumerNext ==
    /\ consumer.it # None
    /\ LET r == VecTable_Iterator_next(consumer.it[1])
       IN /\ consumer' = [consumer EXCEPT !.it = Some(r.it), !.front = @ \o r.item]
          /\ out' = r.item
    /\ op' = "next"
    /\ args' = <<>>
    /\ UNCHANGED <<table, index, composite>>

\* the consumer calls next_back() on its iterator
ConsumerNextBack ==
    /\ consumer.it # None
    /\ LET r == VecTable_DoubleEnded_next_back(consumer.it[1])
       IN /\ consumer' = [consumer EXCEPT !.it = Some(r.it), !.back = @ \o r.item]
          /\ out' = r.item
    /\ op' = "next_back"
    /\ args' = <<>>
    /\ UNCHANGED <<table, index, composite>>

\* the scan bounds the consumer uses: below every record, the lowest seq,
\* the table's current seq, and beyond every seq the table can come to assign
ConsumerBounds == {0, 1, table.current_seq, MaxSeq + 1}

ConsumeNext ==
    \/ \E events \in Batches(Payloads) : TableAppend(events)
    \/ \E seq \in 0..MaxSeed : TableSetCurrentSeq(seq)
    \/ \E start \in ConsumerBounds, end \in ConsumerBounds : ConsumerScan(start, end)
    \/ ConsumerNext
    \/ ConsumerNextBack

\* a table that is appended to and seeded while a caller takes a scan
\* iterator of it, forward or backward, over all records or over a part of
\* them, and consumes it from both ends, call by call
ConsumeSpec == Init /\ [][ConsumeNext]_vars

\* the seqs handed to set_current_seq on a table seeded anywhere in the range
\* of Seq: the lowest and the highest ones
Seeds == (0..MaxSeed) \cup ((SeqMAX - MaxSeed)..SeqMAX)

SeedNext ==
    \/ \E events \in Batches(Payloads) : TableAppend(events)
    \/ \E seq \in Seeds : TableSetCurrentSeq(seq)
    \/ TableGetCurrentSeq

\* a VecTable under append and set_current_seq with seeds up to Seq::MAX
SeedSpec == Init /\ [][SeedNext]_vars

\* scan bounds of a CompositeView whose members hold seqs anywhere in the
\* range of Seq
RangeBounds == {0, 1, SeqMAX - 1, SeqMAX}

RangeNext ==
    \/ \E node_id \in 0..(NumViews - 1) : \E events \in Batches(MemberEvents(node_id)) :
            /\ composite.views[node_id + 1].current_seq + Len(events) <= SeqMAX
            /\ MemberAppend(node_id, events)
    \/ \E node_id \in 0..(NumViews - 1), seq \in Seeds :
            MemberSetCurrentSeq(node_id, seq)
    \/ \E start \in RangeBounds, end \in RangeBounds :
            start <= end /\ CompositeScan(start, end)

\* a CompositeView whose members are seeded up to Seq::MAX and appended to
\* as far as Seq::MAX (no append runs past it), and scanned forward
RangeSpec == Init /\ [][RangeNext]_vars

\* the events appended to the members of a CompositeView an index reads:
\* Insert(1, 1), Insert(1, 2), Remove(1) and Clear
ViewEvents == {1, 2, 4, 5}

\* index.update(&mut composite, composite.get_current_seq())
ViewIndexUpdate ==
    /\ index' = HashMapIndex_update(index, composite, CompositeView_get_current_seq(composite))
    /\ op' = "view_update"
    /\ args' = <<CompositeView_get_current_seq(composite)>>
    /\ out' = <<>>
    /\ UNCHANGED <<table, composite, consumer>>

ViewIndexNext ==
    \/ \E node_id \in 0..(NumViews - 1) : \E events \in Batches(ViewEvents) :
            /\ composite.views[node_id + 1].current_seq >= composite.vector_clock[node_id + 1]
            /\ MemberAppend(node_id, events)
    \/ \E node_id \in 0..(NumViews - 1), seq \in 0..MaxSeed :
            VectorClockUpdate(node_id, seq)
    \/ ViewIndexUpdate

\* a HashMapIndex driven from a CompositeView: members append only above
\* their own clock entry, any seq is reported for a member, and the index is
\* updated to the composite's current seq only
ViewIndexSpec == Init /\ [][ViewIndexNext]_vars

\* index.get(&mut composite, seq, &key)
ViewIndexGet(seq, key) ==
    /\ op' = "view_get"
    /\ args' = <<seq, key>>
    /\ out' = HashMapIndex_get(index, composite, seq, key)
    /\ UNCHANGED <<table, index, composite, consumer>>

\* index.get_all(&mut composite, seq)
ViewIndexGetAll(seq) ==
    /\ op' = "view_get_all"
    /\ args' = <<seq>>
    /\ out' = HashMapIndex_get_all(index, composite, seq)
    /\ UNCHANGED <<table, index, composite, consumer>>

\* query seqs of an index over a CompositeView whose members grow by append only
ViewSeqs == 0..(MaxMemberLen + 1)

\* the events member node_id appends under an index that is queried: an
\* Insert of key 1 with a value of its own, and an event that takes the key
\* out again (Insert(1, 1) and Remove(1) for member 0, Insert(1, 2) and
\* Clear for member 1)
TieEvents(node_id) == {node_id + 1, node_id + 4}

TieNext ==
    \/ \E node_id \in 0..(NumViews - 1) : \E events \in Batches(TieEvents(node_id)) :
            MemberAppend(node_id, events)
    \/ \E node_id \in 0..(NumViews - 1) :
            VectorClockUpdate(node_id, composite.views[node_id + 1].current_seq)
    \/ ViewIndexUpdate
    \/ \E seq \in ViewSeqs, key \in Keys : ViewIndexGet(seq, key)
    \/ \E seq \in ViewSeqs : ViewIndexGetAll(seq)

\* a HashMapIndex over a CompositeView whose members append and report
\* their own current seq, updated to the composite's current seq and
\* queried with get and get_all at every seq
TieSpec == Init /\ [][TieNext]_vars

(***************************************************************************)
(* Reference semantics the properties compare the code against.            *)
(***************************************************************************)
\* the records <<seq, place, event>> of S, ascending by (seq, place), as
\* scan items <<seq, event>>
RECURSIVE Ascending(_)
Ascending(S) ==
    IF S = {} THEN <<>>
    ELSE LET least == CHOOSE x \in S : \A y \in S :
                        x[1] < y[1] \/ (x[1] = y[1] /\ x[2] <= y[2])
         IN <<<<least[1], least[3]>>>> \o Ascending(S \ {least})

\* the records of table t with lo < seq <= hi; place is the storage position
TableRecords(t, lo, hi) ==
    {<<t.seqs[i], i, t.events[i]>> : i \in {j \in 1..Len(t.seqs) : lo < t.seqs[j] /\ t.seqs[j] <= hi}}

\* the records of all members of cv with lo < seq <= hi; place is the member index
MemberRecords(cv, lo, hi) ==
    UNION {{<<cv.views[m].seqs[i], m, cv.views[m].events[i]>> :
                i \in {j \in 1..Len(cv.views[m].seqs) :
                        lo < cv.views[m].seqs[j] /\ cv.views[m].seqs[j] <= hi}} :
           m \in 1..Len(cv.views)}

\* what scan(start, end) of table t is to yield: the records between the
\* bounds, ascending by seq when start <= end and descending otherwise
ScanOrder(t, start, end) ==
    IF start <= end
    THEN Ascending(TableRecords(t, start, end))
    ELSE Reverse(Ascending(TableRecords(t, end, start)))

\* the number of items the members' own scan(start, end) yield, from member
\* m (1-based) on
RECURSIVE MemberScanLens(_, _, _, _)
MemberScanLens(cv, m, start, end) ==
    IF m > Len(cv.views) THEN 0
    ELSE Len(collect(VecTable_scan(cv.views[m], start, end)))
            + MemberScanLens(cv, m + 1, start, end)

\* the items of a sequence, as a set
Items(items) == {items[i] : i \in 1..Len(items)}

\* the projected ops of the events of t with seq <= s, in ascending seq order
\* and in list order within one event
RECURSIVE OpsOf(_)
OpsOf(items) ==
    IF items = <<>> THEN <<>> ELSE to_assignment(Head(items)[2]) \o OpsOf(Tail(items))

OpsUpTo(t, s) == OpsOf(Ascending(TableRecords(t, 0, s)))

\* folding ops from the empty map: Insert overwrites, Remove deletes, Clear empties
RECURSIVE Fold(_, _)
Fold(m, ops) ==
    IF ops = <<>> THEN m
    ELSE LET u == Head(ops)
             n == CASE u.type = "Insert" ->
                        [k \in (DOMAIN m) \cup {u.key} |-> IF k = u.key THEN u.value ELSE m[k]]
                    [] u.type = "Remove" -> [k \in (DOMAIN m) \ {u.key} |-> m[k]]
                    [] u.type = "Clear" -> [k \in {} |-> 0]
         IN Fold(n, Tail(ops))

Replay(t, s) == Fold([k \in {} |-> 0], OpsUpTo(t, s))

\* the fold of the merged stream of the members of cv, ascending by (seq,
\* member index), up to seq s
ViewReplay(cv, s) == Fold([k \in {} |-> 0], OpsOf(Ascending(MemberRecords(cv, 0, s))))

\* the values v for which member m (1-based) of cv holds, at seq s, an event
\* that is Insert(key, v)
InsertedAt(cv, m, s, key) ==
    {v \in Values : \E i \in 1..Len(cv.views[m].seqs) :
        /\ cv.views[m].seqs[i] = s
        /\ to_assignment(cv.views[m].events[i]) = <<Insert(key, v)>>}

\* every member of cv inserts key at seq s
Tie(cv, s, key) == \A m \in 1..Len(cv.views) : InsertedAt(cv, m, s, key) # {}

\* the value the highest-index member of cv inserts for key at seq s
TieValue(cv, s, key) == CHOOSE v \in InsertedAt(cv, Len(cv.views), s, key) : TRUE

(***************************************************************************)
(* Properties.                                                             *)
(***************************************************************************)
\* C1: replay equivalence: after appends and driver updates (non-decreasing,
\* not beyond the table's current seq), get_all(s) equals the fold of all
\* projected ops of events with seq <= s from the empty map, for s behind,
\* at or ahead of the index's current_seq.
C1_ReplayEquivalence ==
    op = "get_all" => out = Replay(table, args[1])

\* C2: Clear semantics: if the log holds a Clear at or before the query seq
\* s, get_all(s) holds no key that was not inserted again after that Clear
\* (by a later op with seq <= s).
C2_ClearSemantics ==
    op = "get_all" =>
        LET ops == OpsUpTo(table, args[1])
        IN \A c \in 1..Len(ops) :
              ops[c].type = "Clear" =>
                 \A k \in DOMAIN out :
                    \E i \in (c + 1)..Len(ops) : ops[i].type = "Insert" /\ ops[i].key = k

C4_ScanRange ==
    op = "scan" =>
        IF args[1] <= args[2]
        THEN out.front = Ascending(TableRecords(table, args[1], args[2]))
        ELSE out.front = Reverse(Ascending(TableRecords(table, args[2], args[1])))

\* a forward scan of a sparse table from a bound that is no stored seq to a
\* bound beyond current_seq, yielding two records or more
C4_Witness ==
    /\ op = "scan"
    /\ 0 < args[1]
    /\ \A i \in 1..Len(table.seqs) : table.seqs[i] # args[1]
    /\ args[2] > table.current_seq
    /\ Len(out.front) >= 2
    /\ \E i \in 1..(Len(table.seqs) - 1) : table.seqs[i + 1] > table.seqs[i] + 1

\* C5: reverse symmetry: the output of scan(a, b).rev() is the output of
\* scan(b, a), for a <= b and for a > b.
C5_ReverseSymmetry ==
    op = "scan" => out.back = collect(VecTable_scan(table, args[2], args[1]))

\* a backward scan whose reversal yields two records or more
C5_Witness ==
    /\ op = "scan"
    /\ args[1] > args[2]
    /\ Len(out.back) >= 2

\* C6: backward CompositeView scan: for a > b, scan(a, b) yields the members'
\* records with b < seq <= a descending by (seq, member index), the reverse
\* of scan(b, a).
C6_BackwardComposite ==
    (op = "composite_scan" /\ args[1] > args[2]) =>
        out.front = Reverse(Ascending(MemberRecords(composite, args[2], args[1])))

\* C7: forward CompositeView order: for a <= b, scan(a, b) yields the
\* members' records with a < seq <= b ascending by (seq, member index), the
\* lower-index member first on equal seqs.
C7_ForwardComposite ==
    (op = "composite_scan" /\ args[1] <= args[2]) =>
        out.front = Ascending(MemberRecords(composite, args[1], args[2]))

\* a forward scan over two members that hold different events at one seq,
\* one of them with a gap in its seqs
C7_Witness ==
    /\ op = "composite_scan"
    /\ args[1] <= args[2]
    /\ Len(out.front) >= 3
    /\ \E i \in 1..(Len(out.front) - 1) :
          out.front[i][1] = out.front[i + 1][1] /\ out.front[i][2] # out.front[i + 1][2]
    /\ \E m \in 1..NumViews : \E i \in 1..(Len(composite.views[m].seqs) - 1) :
          composite.views[m].seqs[i + 1] > composite.views[m].seqs[i] + 1

\* C8: for a <= b, consuming CompositeView::scan(a, b) from the back yields
\* the reverse of what consuming it from the front yields, the higher-index
\* member first on equal seqs.
C8_BackIsReverse ==
    (op = "composite_scan" /\ args[1] <= args[2]) =>
        /\ out.back = Reverse(out.front)
        /\ out.back = Reverse(Ascending(MemberRecords(composite, args[1], args[2])))

\* a forward scan consumed from the back over two members that hold
\* different events at one seq
C8_Witness ==
    /\ op = "composite_scan"
    /\ args[1] <= args[2]
    /\ Len(out.back) >= 3
    /\ \E i \in 1..(Len(out.back) - 1) :
          out.back[i][1] = out.back[i + 1][1] /\ out.back[i][2] # out.back[i + 1][2]

\* C9: vector-clock monotonicity: a vector_clock_update whose seq is not
\* below the member's entry never decreases get_current_seq().
C9_ClockMonotone ==
    [][(op' = "vector_clock_update" /\ args'[2] >= composite.vector_clock[args'[1] + 1])
        => CompositeView_get_current_seq(composite')
             >= CompositeView_get_current_seq(composite)]_vars

\* a vector_clock_update after which get_current_seq() is above 0 and below
\* another member's entry
C9_Witness ==
    /\ op = "vector_clock_update"
    /\ CompositeView_get_current_seq(composite) > 0
    /\ composite.vector_clock[args[1] + 1] = CompositeView_get_current_seq(composite)
    /\ \E i \in 1..NumViews :
          composite.vector_clock[i] > CompositeView_get_current_seq(composite)

\* C10: a vector_clock_update never lowers a vector-clock entry: every entry
\* is at least every value it held before.
C10_EntriesNeverLowered ==
    [][\A i \in 1..NumViews : composite'.vector_clock[i] >= composite.vector_clock[i]]_vars

\* C11: get_current_seq() returns the least entry of the vector clock (0 on
\* a fresh view and while some member's entry is 0), and no append to a
\* member, set_current_seq on a member or scan changes what it returns: only
\* vector_clock_update does.
C11_WatermarkIsClockMin ==
    /\ [](op = "composite_get_current_seq" =>
            /\ \E i \in 1..NumViews : out = composite.vector_clock[i]
            /\ \A i \in 1..NumViews : out <= composite.vector_clock[i]
            /\ (\E i \in 1..NumViews : composite.vector_clock[i] = 0) => out = 0)
    /\ (op = "new" => CompositeView_get_current_seq(composite) = 0)
    /\ [][op' # "vector_clock_update" =>
            CompositeView_get_current_seq(composite')
                = CompositeView_get_current_seq(composite)]_vars

\* a member appended past a watermark that every member has raised above 0
C11_Witness ==
    /\ op = "member_append"
    /\ out # <<>>
    /\ CompositeView_get_current_seq(composite) > 0
    /\ composite.views[args[1] + 1].current_seq > composite.vector_clock[args[1] + 1]

\* C12: stability below the watermark: once get_current_seq() has returned
\* s, no later member append and no later vector_clock_update changes the
\* output of scan(0, s2) for any s2 <= s.  Stated for the call that follows
\* the read of s.
C12_StableBelowWatermark ==
    [][op = "composite_get_current_seq" =>
        \A s2 \in 0..out : scan_from_zero(composite', s2) = scan_from_zero(composite, s2)]_vars

\* C13: append(events) gives each event the next seq (current seq + 1, + 2,
\* ...), above every stored seq and increasing in submission order, stores
\* the events under these seqs and returns exactly these seqs in submission
\* order; on a table that no set_current_seq has raised (its current seq is
\* its number of records) the k-th record has seq k.
C13_AppendAssignsNext ==
    /\ [][op' = "append" =>
            /\ Len(out') = Len(args'[1])
            /\ \A i \in 1..Len(out') : out'[i] = table.current_seq + i
            /\ \A i \in 1..Len(out') : \A j \in 1..Len(table.seqs) : out'[i] > table.seqs[j]
            /\ \A i \in 1..(Len(out') - 1) : out'[i] < out'[i + 1]
            /\ table'.seqs = table.seqs \o out'
            /\ table'.events = table.events \o args'[1]]_vars
    /\ [](table.current_seq = Len(table.seqs) =>
            \A k \in 1..Len(table.seqs) : table.seqs[k] = k)

\* an append of two events to a table that holds a record and was raised
\* by set_current_seq
C13_Witness ==
    /\ op = "append"
    /\ Len(out) = 2
    /\ Len(table.seqs) = 3
    /\ table.current_seq > Len(table.seqs)

\* C14: append-only log: under append and set_current_seq the stored seqs
\* are strictly increasing in storage order, seqs and events have one
\* length, and every record of a state is in every later state, unmodified
\* and at the same position.
C14_AppendOnlyLog ==
    /\ [](/\ Len(table.seqs) = Len(table.events)
          /\ \A i \in 1..(Len(table.seqs) - 1) : table.seqs[i] < table.seqs[i + 1])
    /\ [][/\ Len(table'.seqs) >= Len(table.seqs)
          /\ \A i \in 1..Len(table.seqs) :
                table'.seqs[i] = table.seqs[i] /\ table'.events[i] = table.events[i]]_vars

\* a set_current_seq below the current seq of a table that holds records
\* with a gap between their seqs
C14_Witness ==
    /\ op = "set_current_seq"
    /\ args[1] < table.current_seq
    /\ \E i \in 1..(Len(table.seqs) - 1) : table.seqs[i + 1] > table.seqs[i] + 1

\* C15 as stated: get_current_seq() returns the seq of the last stored
\* record, and 0 for an empty table.
C15_CurrentSeqIsLastStored ==
    op = "get_current_seq" =>
        out = IF table.seqs = <<>> THEN 0 ELSE table.seqs[Len(table.seqs)]

\* C15: get_current_seq() returns the greatest of the seqs append has
\* assigned and the seqs set_current_seq was handed (0 if there is neither):
\* it starts at 0, an append moves it to the last seq it assigned, a
\* set_current_seq(seq) to the greater of it and seq, nothing else moves it;
\* it is never below a stored seq, and on a table that no set_current_seq
\* has raised it is the seq of the last stored record, the number of events
\* appended.
C15_CurrentSeqIsGreatestAssignedOrSet ==
    /\ (op = "new" => VecTable_get_current_seq(table) = 0)
    /\ [](op = "get_current_seq" =>
            /\ out = VecTable_get_current_seq(table)
            /\ \A i \in 1..Len(table.seqs) : out >= table.seqs[i]
            /\ (out = Len(table.seqs) /\ out > 0) => out = table.seqs[Len(table.seqs)])
    /\ [][/\ (op' = "append" /\ out' # <<>>) =>
                VecTable_get_current_seq(table') = out'[Len(out')]
          /\ op' = "set_current_seq" =>
                VecTable_get_current_seq(table') =
                    IF args'[1] > VecTable_get_current_seq(table)
                    THEN args'[1] ELSE VecTable_get_current_seq(table)
          /\ (op' \notin {"append", "set_current_seq"} \/ (op' = "append" /\ out' = <<>>)) =>
                VecTable_get_current_seq(table') = VecTable_get_current_seq(table)]_vars

\* get_current_seq() on a table that holds no record and was raised by
\* set_current_seq
C15_Witness ==
    /\ op = "get_current_seq"
    /\ table.seqs = <<>>
    /\ out > 0

\* C16: update(seq) with seq >= current_seq applies the projected ops of
\* exactly the source events with current_seq < s <= seq to the map, in
\* ascending seq order and in list order within one event (Insert
\* overwrites, Remove deletes, Clear empties), and sets current_seq to seq.
C16_UpdateFoldsWindow ==
    [][(op' = "update" /\ args'[1] >= index.current_seq) =>
        /\ index'.map = Fold(index.map,
                             OpsOf(Ascending(TableRecords(table, index.current_seq, args'[1]))))
        /\ index'.current_seq = args'[1]]_vars

\* an update to the table's current seq over a log that overwrites a key and
\* holds a Remove or a Clear, leaving a map that is not empty
C16_Witness ==
    /\ op = "update"
    /\ index.current_seq = args[1]
    /\ args[1] = table.current_seq
    /\ Len(table.seqs) = 3
    /\ \E i \in 1..3 : table.events[i] \in {4, 5, 6}
    /\ \E i \in 1..2 : table.events[i] = 1 /\ table.events[i + 1] = 2
    /\ index.map = Replay(table, table.current_seq)
    /\ index.map # EmptyMap

\* C17: update is idempotent and never rewinds: update(seq) with seq equal
\* to or below current_seq leaves map and current_seq unchanged.
C17_UpdateNeverRewinds ==
    [][(op' = "update" /\ args'[1] <= index.current_seq) => index' = index]_vars

\* C18: index state invariant: under appends and updates of non-decreasing
\* seq (seqs the table has not reached included), map is the fold of all
\* projected ops of the source events with seq <= current_seq, and
\* get_all(current_seq) is map.
C18_IndexStateInvariant ==
    /\ index.map = Replay(table, index.current_seq)
    /\ (op = "get_all" /\ args[1] = index.current_seq) => out = index.map

\* C19: watermark independence: two HashMapIndex instances over one source
\* log, updated to different current_seq values, return the same map for
\* get_all(s) and the same value for get(s, k), for every s and k.  The
\* second instance is a new index updated once to w, for every w up to the
\* table's current seq.
C19_WatermarkIndependence ==
    /\ op = "get_all" =>
          \A w \in 0..table.current_seq :
              out = HashMapIndex_get_all(HashMapIndex_update(HashMapIndex_new, table, w),
                                         table, args[1])
    /\ op = "get" =>
          \A w \in 0..table.current_seq :
              out = HashMapIndex_get(HashMapIndex_update(HashMapIndex_new, table, w),
                                     table, args[1], args[2])

\* C20: rewind without a Clear in the window: when get_all(seq) is called
\* with seq < current_seq, no Clear lies in (seq, current_seq], and a key
\* touched in (seq, current_seq] and held by the current map has a Remove as
\* the most recent op on it at or before seq, the key is absent from the
\* result.
C20_RewindRemoveAbsent ==
    (op = "get_all" /\ args[1] < index.current_seq) =>
        LET window == OpsOf(Ascending(TableRecords(table, args[1], index.current_seq)))
            before == OpsUpTo(table, args[1])
            on(u, k) == u.type = "Clear" \/ u.key = k
        IN (\A i \in 1..Len(window) : window[i].type # "Clear") =>
              \A k \in DOMAIN index.map :
                 ( /\ \E i \in 1..Len(window) : window[i].key = k
                   /\ \E i \in 1..Len(before) :
                         /\ before[i] = Remove(k)
                         /\ \A j \in (i + 1)..Len(before) : ~on(before[j], k) )
                 => k \notin DOMAIN out

\* C21: rewind without a Clear in the window: when get_all(seq) is called
\* with seq < current_seq, no Clear lies in (seq, current_seq], and for a key
\* touched in (seq, current_seq] the most recent op at or before seq that is
\* a Clear or an op on that key is a Clear, the key is absent from the
\* result, also when an Insert of it lies before that Clear.
C21_RewindStopsAtClear ==
    (op = "get_all" /\ args[1] < index.current_seq) =>
        LET window == OpsOf(Ascending(TableRecords(table, args[1], index.current_seq)))
            before == OpsUpTo(table, args[1])
        IN (\A i \in 1..Len(window) : window[i].type # "Clear") =>
              \A k \in Keys :
                 ( /\ \E i \in 1..Len(window) : window[i].key = k
                   /\ \E i \in 1..Len(before) :
                         /\ before[i].type = "Clear"
                         /\ \A j \in (i + 1)..Len(before) :
                                before[j].type # "Clear" /\ before[j].key # k )
                 => k \notin DOMAIN out

\* C22: rewind with a Clear in (seq, current_seq]: get_all(seq) is built
\* from the empty map out of the ops at or before seq that come after the
\* most recent Clear at or before seq (all of them if there is none): a key
\* is present with its most recent Insert value unless a Remove of it is
\* more recent, and no op older than that Clear contributes.
C22_RebuildStopsAtClear ==
    (op = "get_all" /\ args[1] < index.current_seq) =>
        LET window == OpsOf(Ascending(TableRecords(table, args[1], index.current_seq)))
            before == OpsUpTo(table, args[1])
            clears == {i \in 1..Len(before) : before[i].type = "Clear"}
            last == IF clears = {} THEN 0
                    ELSE CHOOSE i \in clears : \A j \in clears : j <= i
        IN (\E i \in 1..Len(window) : window[i].type = "Clear") =>
              out = Fold([k \in {} |-> 0], SubSeq(before, last + 1, Len(before)))

\* C23: rewind without a Clear in the window: a key touched in
\* (seq, current_seq] with no op on it at or before seq is absent from
\* get_all(seq), and a key not touched in (seq, current_seq] has in
\* get_all(seq) the presence and value it has in the current map.
C23_RewindTouchedAndUntouched ==
    (op = "get_all" /\ args[1] < index.current_seq) =>
        LET window == OpsOf(Ascending(TableRecords(table, args[1], index.current_seq)))
            before == OpsUpTo(table, args[1])
            touched(k) == \E i \in 1..Len(window) : window[i].key = k
        IN (\A i \in 1..Len(window) : window[i].type # "Clear") =>
              \A k \in Keys :
                 /\ (touched(k) /\ \A i \in 1..Len(before) :
                                      before[i].type = "Clear" \/ before[i].key # k)
                       => k \notin DOMAIN out
                 /\ ~touched(k) => map_get(out, k) = map_get(index.map, k)

\* a get_all behind current_seq, with no Clear in the window, that drops a
\* key first inserted in the window and keeps an untouched key of the map
C23_Witness ==
    /\ op = "get_all"
    /\ args[1] < index.current_seq
    /\ LET window == OpsOf(Ascending(TableRecords(table, args[1], index.current_seq)))
       IN /\ \A i \in 1..Len(window) : window[i].type # "Clear"
          /\ \E k \in DOMAIN index.map :
                /\ \E i \in 1..Len(window) : window[i].key = k
                /\ k \notin DOMAIN out
          /\ \E k \in DOMAIN out : \A i \in 1..Len(window) : window[i].key # k

\* C24: on a log whose events project to Insert ops only, with the index
\* updated to the table's current seq, get_all(s) for s from 0 to the
\* current seq is the full replay HashMapLog::get_at_seq(s): each key maps
\* to the value of the greatest-seq event <= s that assigns it, and no event
\* with seq > s affects the result.
C24_InsertOnlyMatchesReplay ==
    ( /\ op = "get_all"
      /\ \A i \in 1..Len(table.events) : table.events[i] \in InsertEvents
      /\ index.current_seq = table.current_seq
      /\ args[1] <= table.current_seq ) =>
        /\ out = HashMapLog_get_at_seq(table, args[1])
        /\ \A k \in Keys :
              LET assigns == {i \in 1..Len(table.seqs) :
                                /\ table.seqs[i] <= args[1]
                                /\ KeyValueAssignment_get(table.events[i])[1] = k}
              IN IF assigns = {} THEN k \notin DOMAIN out
                 ELSE /\ k \in DOMAIN out
                      /\ out[k] = KeyValueAssignment_get(
                                     table.events[CHOOSE i \in assigns : \A j \in assigns : j <= i])[2]

\* a get_all behind the current seq of an Insert-only log of three events,
\* where a later event overwrites a key the result holds and another key
\* is first assigned after the query seq
C24_Witness ==
    /\ op = "get_all"
    /\ Len(table.events) = 3
    /\ \A i \in 1..3 : table.events[i] \in InsertEvents
    /\ index.current_seq = table.current_seq
    /\ args[1] < table.current_seq
    /\ \E k \in DOMAIN out : out[k] # index.map[k]
    /\ DOMAIN out # DOMAIN index.map

\* C25: get and get_all agree: for every history, every query seq s and
\* every key k, get(s, k) equals get_all(s).get(k).
C25_GetAgreesWithGetAll ==
    op = "get" => out = map_get(HashMapIndex_get_all(index, table, args[1]), args[2])

\* C26: read-ahead matches update: for every seq s >= current_seq, the map
\* get_all(s) returns before update(s) is the index's map after update(s),
\* and is what get_all(s) returns after the update.
C26_ReadAheadMatchesUpdate ==
    [][(op' = "update" /\ args'[1] >= index.current_seq) =>
        /\ HashMapIndex_get_all(index, table, args'[1]) = index'.map
        /\ HashMapIndex_get_all(index', table', args'[1]) = index'.map]_vars

\* an update to a seq beyond the table's current seq that left a map holding
\* the fold of a log of two events or more
C26_Witness ==
    /\ op = "update"
    /\ args[1] > table.current_seq
    /\ index.current_seq = args[1]
    /\ Len(table.seqs) >= 2
    /\ index.map # EmptyMap
    /\ index.map = Replay(table, table.current_seq)

\* C28: update batching: for current_seq <= s1 <= s2 and an unchanged
\* source, update(s1) followed by update(s2) leaves the index with the map
\* and current_seq a single update(s2) leaves.
C28_UpdateBatching ==
    [][(op' = "update" /\ args'[1] >= index.current_seq) =>
        \A s1 \in index.current_seq..args'[1] :
            HashMapIndex_update(HashMapIndex_update(index, table, s1), table, args'[1])
                = index']_vars

\* an update from 0 to the current seq of a table of three events whose
\* second event is a Clear and whose last event inserts
C28_Witness ==
    /\ op = "update"
    /\ args[1] = 3
    /\ table.current_seq = 3
    /\ table.events[2] = 5
    /\ table.events[3] \in InsertEvents
    /\ index = [current_seq |-> 3, map |-> Replay(table, 3)]

\* C27: queries are read-only: get and get_all, for a seq behind, at or
\* ahead of current_seq, leave the index's map and current_seq unchanged,
\* and scan and get_current_seq leave the table's stored seqs, events and
\* current_seq unchanged.
C27_QueriesReadOnly ==
    [][/\ op' \in {"get", "get_all"} =>
            index'.map = index.map /\ index'.current_seq = index.current_seq
       /\ op' \in {"scan", "get_current_seq"} =>
            /\ table'.seqs = table.seqs
            /\ table'.events = table.events
            /\ table'.current_seq = table.current_seq]_vars

\* a get_all behind current_seq that returned a map other than the index's
C27_Witness ==
    /\ op = "get_all"
    /\ args[1] < index.current_seq
    /\ out # index.map
    /\ index.map = Replay(table, index.current_seq)

\* C29: write-then-update driver: after every return of the driver's write,
\* for any number of successive batches, the destination's map is the fold
\* of the projected ops of all events written so far.
C29_DriverAppliesEveryEvent ==
    op = "driver_write" =>
        index.map = Fold([k \in {} |-> 0],
                         OpsOf([i \in 1..Len(table.seqs) |-> <<table.seqs[i], table.events[i]>>]))

\* C30: VectorLog::current_seq() returns one more than the greatest stored
\* seq (1 for an empty log, n + 1 after n events written), and write gives
\* the events the seqs 1, 2, ... in submission order.
C30_LogNextSeq ==
    /\ [](op = "log_current_seq" =>
            /\ out = Len(table.seqs) + 1
            /\ \A i \in 1..Len(table.seqs) : out > table.seqs[i]
            /\ table.seqs # <<>> => \E i \in 1..Len(table.seqs) : out = table.seqs[i] + 1)
    /\ [](\A k \in 1..Len(table.seqs) : table.seqs[k] = k)
    /\ [][op' = "write" =>
            /\ Len(table'.seqs) = Len(table.seqs) + Len(args'[1])
            /\ \A i \in 1..Len(table.seqs) :
                    table'.seqs[i] = table.seqs[i] /\ table'.events[i] = table.events[i]
            /\ \A i \in 1..Len(args'[1]) :
                    /\ table'.seqs[Len(table.seqs) + i] = Len(table.seqs) + i
                    /\ table'.events[Len(table.seqs) + i] = args'[1][i]]_vars

\* current_seq() on a log that took two batches
C30_Witness ==
    /\ op = "log_current_seq"
    /\ out = 4
    /\ Len(table.events) = 3

\* C31: set_current_seq(seq) leaves current_seq at the greater of its old
\* value and seq, so never lower than it was, and leaves the stored records
\* as they are; the next append after it, directly or after reads, assigns
\* only seqs above the seeded seq and above every stored seq: the append
\* that follows directly does, and in general current_seq is at least the
\* seed right after the call, never drops in any step, is never below a
\* stored seq, and every append assigns only seqs above it.
C31_SeedNeverLowers ==
    /\ [][op' = "set_current_seq" =>
            /\ table'.current_seq >= table.current_seq
            /\ table'.current_seq =
                    IF args'[1] > table.current_seq THEN args'[1] ELSE table.current_seq
            /\ table'.seqs = table.seqs
            /\ table'.events = table.events]_vars
    /\ [][(op = "set_current_seq" /\ op' = "append") =>
            \A i \in 1..Len(out') :
                /\ out'[i] > args[1]
                /\ \A j \in 1..Len(table.seqs) : out'[i] > table.seqs[j]]_vars
    /\ [](op = "set_current_seq" => table.current_seq >= args[1])
    /\ [](\A j \in 1..Len(table.seqs) : table.current_seq >= table.seqs[j])
    /\ [][table'.current_seq >= table.current_seq]_vars
    /\ [][op' = "append" => \A i \in 1..Len(out') : out'[i] > table.current_seq]_vars

\* an append of one event whose seq lies more than one above the record
\* stored before it: a set_current_seq raised the table in between
C31_Witness ==
    /\ op = "append"
    /\ Len(out) = 1
    /\ Len(table.seqs) >= 2
    /\ out[1] > table.seqs[Len(table.seqs) - 1] + 1

\* C32: double-ended consumption of one scan iterator of a table, under
\* any interleaving of next() and next_back(): what next() has returned is
\* a prefix of the scan's records in scan order and what next_back() has
\* returned is a suffix of them in reverse, the two never overlap, so every
\* record is returned once at most; a call returns Some exactly while fewer
\* than all k records have been returned, so k calls return Some and every
\* call after them returns None.
C32_DoubleEndedConsumption ==
    /\ [](consumer.it # None =>
            LET e == ScanOrder(consumer.scanned, consumer.start, consumer.end)
            IN /\ Len(consumer.front) + Len(consumer.back) <= Len(e)
               /\ consumer.front = SubSeq(e, 1, Len(consumer.front))
               /\ consumer.back = Reverse(SubSeq(e, Len(e) - Len(consumer.back) + 1, Len(e))))
    /\ [][op' \in {"next", "next_back"} =>
            (out' = None <=>
                Len(consumer.front) + Len(consumer.back) =
                    Len(ScanOrder(consumer.scanned, consumer.start, consumer.end)))]_vars

\* a scan of three records taken from both ends in turn: two from the
\* front and one from the back are out, and the call after them, a
\* next_back(), has returned None
C32_Witness ==
    /\ op = "next_back"
    /\ out = None
    /\ Len(consumer.front) = 2
    /\ Len(consumer.back) = 1

\* C33: scan snapshot isolation: at every point of its consumption, what an
\* iterator has yielded from the front, what it still holds, and what it
\* has yielded from the back make up exactly the in-range records of the
\* table as it was when scan was called, in scan order, whatever append and
\* set_current_seq have done to the table since; and these calls leave the
\* iterator as it is.
C33_ScanSnapshot ==
    /\ [](consumer.it # None =>
            consumer.front \o collect(consumer.it[1]) \o Reverse(consumer.back) =
                ScanOrder(consumer.scanned, consumer.start, consumer.end))
    /\ [][op' \in {"append", "set_current_seq"} => consumer'.it = consumer.it]_vars

\* an iterator consumed to its end after the table was seeded and appended
\* to: the table now holds more records in the scan range than the iterator
\* has yielded, and its current seq has risen by more than its records
C33_Witness ==
    /\ op = "next"
    /\ out = None
    /\ consumer.front # <<>>
    /\ Len(ScanOrder(table, consumer.start, consumer.end)) >
            Len(ScanOrder(consumer.scanned, consumer.start, consumer.end))
    /\ table.current_seq - consumer.scanned.current_seq >
            Len(table.seqs) - Len(consumer.scanned.seqs)

\* C37: append never fails: on every table reached by append and
\* set_current_seq, with seeds up to Seq::MAX, an append returns (it does not
\* panic), every seq it assigns is above every seq stored before, and the
\* table's current seq does not drop.
C37_AppendNeverFails ==
    [][op' \in {"append", "append_panic"} =>
        /\ op' = "append"
        /\ \A i \in 1..Len(out') : \A j \in 1..Len(table.seqs) : out'[i] > table.seqs[j]
        /\ table'.current_seq >= table.current_seq]_vars

\* C34: CompositeView scan completeness over the whole range of Seq: for
\* start <= end, consuming scan(start, end) from the front yields every
\* member record with start < seq <= end once and nothing else, as many
\* items as the members' own scan(start, end) yield together, and so does
\* consuming it from the back.
C34_ScanComplete ==
    (op = "composite_scan" /\ args[1] <= args[2]) =>
        LET e == {<<r[1], r[3]>> : r \in MemberRecords(composite, args[1], args[2])}
            n == MemberScanLens(composite, 1, args[1], args[2])
        IN /\ Items(out.front) = e
           /\ Len(out.front) = Cardinality(e)
           /\ Len(out.front) = n
           /\ Items(out.back) = e
           /\ Len(out.back) = Cardinality(e)
           /\ Len(out.back) = n

\* C35: an index driven from a CompositeView, with members that append only
\* above their last reported clock entry and updates only to the
\* composite's get_current_seq(): in every state, after every append, clock
\* report and update, the index's map is the fold of the merged stream,
\* ascending by (seq, member index), up to the index's current_seq.
C35_ViewIndexIsFold ==
    index.map = ViewReplay(composite, index.current_seq)

\* C36: last writer wins on equal seqs across members: when every member
\* inserts the same key at the same seq s, an index over the composite
\* gives the key the highest-index member's value: get(s, key) returns it,
\* get_all(s) holds it, and an index that update has brought to s holds it.
C36_TieLastWriterWins ==
    /\ (op = "view_get" /\ Tie(composite, args[1], args[2])) =>
            out = Some(TieValue(composite, args[1], args[2]))
    /\ op = "view_get_all" =>
            \A key \in Keys : Tie(composite, args[1], key) =>
                map_get(out, key) = Some(TieValue(composite, args[1], key))
    /\ \A key \in Keys : Tie(composite, index.current_seq, key) =>
            map_get(index.map, key) = Some(TieValue(composite, index.current_seq, key))

\* get(s, key) ahead of the index's current seq, with the two members
\* inserting different values for key at seq s: it returns the value of
\* the second member
C36_Witness ==
    /\ op = "view_get"
    /\ Tie(composite, args[1], args[2])
    /\ InsertedAt(composite, 1, args[1], args[2]) # InsertedAt(composite, 2, args[1], args[2])
    /\ index.current_seq < args[1]
    /\ out = Some(TieValue(composite, args[1], args[2]))
====
